---- MODULE Spec2Model ----
(***************************************************************************)
(* Sale / installment state machine of the car showroom backend.          *)
(*                                                                         *)
(* One Vehicle Record (a Car document) and the request handlers of        *)
(* controllers/car-controller.js that mutate it.  Money amounts, odometer  *)
(* readings and month numbers are small naturals.  A nullable field of the *)
(* document is the empty set (null) or a singleton set holding the value.  *)
(* An omitted field of a request body is the empty set as well.            *)
(*                                                                         *)
(* Spec      : requests are served one after the other, each handler is    *)
(*             one atomic step (find, check, mutate, save, commit, reply). *)
(* SpecMark  : two mark-sold requests run concurrently, each in its own    *)
(*             transaction (snapshot read at findById, write conflict at   *)
(*             save when the document changed since the snapshot).         *)
(***************************************************************************)
EXTENDS Integers, Sequences, FiniteSets, TLC

\* ------------------------------------------------------------------ bounds
MaxAmount == 1
MaxPrice == 1
MaxMonthly == 1
MaxMonth == 2
MaxLedger == 2
MaxKilo == 1
MaxPenalty == 0
MaxTerm == 1
MaxRepairs == 1
MaxCost == 0
MaxYear == 0
MonthLength == 2
DayLength == 1
MaxPlate == 2
MaxFiles == 3

Amounts == 0..MaxAmount
Prices == 0..MaxPrice
MonthlyPayments == 0..MaxMonthly
MonthNumbers == 1..MaxMonth
Kilos == 0..MaxKilo
Penalties == 0..MaxPenalty
Terms == 0..MaxTerm
Ids == {"car", "unknown"}
Procs == {1, 2}

\* ------------------------------------------------------- nullable helpers
NULL == {}

Some(v) == {v}

Has(x) == x # {}

Val(x) == CHOOSE v \in x : TRUE

Opt(S) == {NULL} \cup {Some(v) : v \in S}

Max(a, b) == IF a >= b THEN a ELSE b

\* ---------------------------------------------------------------- ledger
\* One payment ledger entry.  monthNumber 0 stands for an entry without a
\* month number (written by addInstallmentPayment).
PaymentEntry(month, amount, penalty) ==
    [monthNumber |-> month, amount |-> amount, penaltyFee |-> penalty]

RECURSIVE SumAmounts(_)
SumAmounts(h) ==
    IF h = <<>> THEN 0 ELSE Head(h).amount + SumAmounts(Tail(h))

\* car.repairs.reduce((sum, r) => sum + r.cost, 0); a repair is its cost
RECURSIVE SumCosts(_)
SumCosts(r) ==
    IF r = <<>> THEN 0 ELSE Head(r) + SumCosts(Tail(r))

\* ...reduce((sum, p) => sum + (p.penaltyFee || 0), 0)
RECURSIVE SumPenalties(_)
SumPenalties(h) ==
    IF h = <<>> THEN 0 ELSE Head(h).penaltyFee + SumPenalties(Tail(h))

\* updatedHistory.findIndex((p) => p.monthNumber === month); 0 when absent
FindIndex(h, month) ==
    LET hits == {i \in 1..Len(h) : h[i].monthNumber = month}
    IN IF hits = {} THEN 0 ELSE CHOOSE i \in hits : \A j \in hits : i <= j

\* a fault of the filter: every entry is dropped
FilterOutAll(h, month) == <<>>

\* updatedHistory.filter((p) => p.monthNumber !== month)
RECURSIVE FilterOutMonth(_, _)
FilterOutMonth(h, month) ==
    IF h = <<>> THEN <<>>
    ELSE IF Head(h).monthNumber = month
         THEN FilterOutMonth(Tail(h), month)
         ELSE <<Head(h)>> \o FilterOutMonth(Tail(h), month)

PaidMonths(h) == {h[i].monthNumber : i \in 1..Len(h)} \ {0}

\* installmentTotalAmount: downPayment + remainingAmount + payments made
ContractTotal(inst) ==
    inst.downPayment + inst.remainingAmount + SumAmounts(inst.paymentHistory)

\* ------------------------------------------------------------------ state
VARIABLES
    car,        \* the persisted Car document
    response,   \* the reply to the last finished request
    pre,        \* the document before the last installment-route request
    req,        \* the body of the last monthly-payment request; for a
                \* report, its query and the time it is served
    repeated,   \* the last request repeats the monthly-payment request
                \* served just before it, which had succeeded
    txn,        \* per concurrent request: its transaction
    version,    \* number of committed writes of the document
    upload      \* the createCar request: its position, what became of the
                \* upload of each of its files, the images it had deleted

vars == <<car, response, pre, req, repeated, txn, version, upload>>

NewCar(kilo) ==
    [isAvailable |-> TRUE,
     boughtType |-> "null",
     sale |-> NULL,
     installment |-> NULL,
     ownerBookTransfer |-> NULL,
     kilo |-> kilo,
     repairs |-> <<>>]

Reply(op, status, kind) == [op |-> op, status |-> status, kind |-> kind]

\* req.body of the monthly-payment route; NoReq for every other route
LedgerReq(month, paid, amount, penalty) ==
    [monthNumber |-> month, paid |-> paid, amount |-> amount,
     penaltyFee |-> penalty]

NoReq == LedgerReq(0, FALSE, NULL, 0)

\* no createCar request is being served
NoUpload ==
    [pc |-> "idle", files |-> <<>>, uploadedImageIds |-> {}, destroyed |-> {},
     saved |-> FALSE]

\* a transaction that has not started; op, body, snap and ver get their
\* values when it starts
IdleTxn ==
    [pc |-> "idle", op |-> "none", body |-> NULL, snap |-> NULL, ver |-> 0,
     reply |-> NULL]

\* ------------------------------------------------------ mongoose document
\* carSchema.pre("validate")
PreValidate(c) ==
    LET sold == Has(c.sale) \/ Has(c.installment)
    IN IF sold /\ c.isAvailable THEN [c EXCEPT !.isAvailable = FALSE] ELSE c

\* carSchema.pre("save")
PreSave(c) ==
    IF Has(c.sale)
    THEN [c EXCEPT !.isAvailable = FALSE, !.boughtType = "Paid"]
    ELSE IF Has(c.installment)
         THEN [c EXCEPT !.isAvailable = FALSE, !.boughtType = "Installment"]
         ELSE c

\* A text is a sequence of characters: a lower-case letter, an upper-case
\* letter and the blank stand for the alphabet.
Chars == {"a", "B", " "}

UpperOf(ch) == IF ch = "a" THEN "A" ELSE ch

\* String.prototype.toUpperCase
ToUpperCase(s) == [i \in 1..Len(s) |-> UpperOf(s[i])]

\* String.prototype.trim
RECURSIVE Trim(_)
Trim(s) ==
    IF s = <<>> THEN s
    ELSE IF Head(s) = " " THEN Trim(Tail(s))
    ELSE IF s[Len(s)] = " " THEN Trim(SubSeq(s, 1, Len(s) - 1))
    ELSE s

MinLicenseNo == 2
MaxLicenseNo == 20

\* the validators of licenseNo (required, minlength, maxlength); a document
\* written without the field stands for one whose licenseNo is valid
LicenseNoValid(c) ==
    "licenseNo" \in DOMAIN c =>
        /\ Len(c.licenseNo) >= MinLicenseNo
        /\ Len(c.licenseNo) <= MaxLicenseNo

\* the ledger entry's penalty fee is stored with a minimum of 0
PenaltyFeeValid(p) == p.penaltyFee >= 0

\* the schema's min validators
SchemaValid(c) ==
    /\ LicenseNoValid(c)
    /\ c.kilo >= 0
    /\ \A i \in 1..Len(c.repairs) : c.repairs[i] >= 0
    /\ Has(c.sale) => (Val(c.sale).price >= 0 /\ Val(c.sale).kiloAtSale >= 0)
    /\ Has(c.installment) =>
          LET inst == Val(c.installment)
          IN /\ inst.downPayment >= 0
             /\ inst.remainingAmount >= 0
             /\ inst.months >= 1
             /\ inst.monthlyPayment >= 0
             /\ \A i \in 1..Len(inst.paymentHistory) :
                    /\ inst.paymentHistory[i].amount >= 0
                    /\ PenaltyFeeValid(inst.paymentHistory[i])

\* car.save({ session }): validate hook, validation, save hook.  A handler's
\* catch block turns a rejected save into a 500 reply.
Save(op, c, orig) ==
    LET v == PreValidate(c)
    IN IF SchemaValid(v)
       THEN [reply |-> Reply(op, 200, "OK"), car |-> PreSave(v)]
       ELSE [reply |-> Reply(op, 500, "ServerError"), car |-> orig]

Fail(op, status, kind, orig) ==
    [reply |-> Reply(op, status, kind), car |-> orig]

\* a fault of carSchema.methods.markAsPaid: the odometer of the sale always
\* replaces the last-known odometer
CarMarkAsPaidOverwritesKilo(c, price, kiloAtSale) ==
    [c EXCEPT !.sale = Some([price |-> price, kiloAtSale |-> kiloAtSale]),
              !.installment = NULL,
              !.boughtType = "Paid",
              !.isAvailable = FALSE,
              !.kilo = kiloAtSale]

\* carSchema.methods.markAsPaid (its own argument check cannot fail after the
\* handler's check of the same fields)
CarMarkAsPaid(c, price, kiloAtSale) ==
    [c EXCEPT !.sale = Some([price |-> price, kiloAtSale |-> kiloAtSale]),
              !.installment = NULL,
              !.boughtType = "Paid",
              !.isAvailable = FALSE,
              !.kilo = IF c.kilo < kiloAtSale THEN kiloAtSale ELSE c.kilo]

\* carSchema.methods.markAsInstallment
CarMarkAsInstallment(c, downPayment, remainingAmount, months, monthlyPayment) ==
    [c EXCEPT !.installment = Some([downPayment |-> downPayment,
                                    remainingAmount |-> remainingAmount,
                                    months |-> months,
                                    monthlyPayment |-> monthlyPayment,
                                    paymentHistory |-> <<>>]),
              !.sale = NULL,
              !.boughtType = "Installment",
              !.isAvailable = FALSE]

\* carSchema.methods.relist; no handler calls it
CarRelist(c) ==
    [c EXCEPT !.sale = NULL, !.installment = NULL, !.boughtType = "null",
              !.isAvailable = TRUE]

\* ---------------------------------------------------------------- handlers
\* Each XxxResult is the handler applied to the document c that findById
\* returned: the reply it sends and the document it persists.

\* a fault of markAsPaid: the availability check is missing
MarkAsPaidUnguardedResult(c, found, a) ==
    IF a.price = 0 \/ ~a.soldDate \/ a.kiloAtSale = 0 \/ a.buyer # "ok"
    THEN Fail("markAsPaid", 400, "Validation", c)
    ELSE IF ~found THEN Fail("markAsPaid", 404, "NotFound", c)
    ELSE Save("markAsPaid",
              [CarMarkAsPaid(c, a.price, a.kiloAtSale)
                   EXCEPT !.isAvailable = FALSE], c)

\* markAsPaid: a.price etc. are the fields of req.body.sale
MarkAsPaidResult(c, found, a) ==
    IF a.price = 0 \/ ~a.soldDate \/ a.kiloAtSale = 0
       \/ a.buyer # "ok"
    THEN Fail("markAsPaid", 400, "Validation", c)
    ELSE IF ~found THEN Fail("markAsPaid", 404, "NotFound", c)
    ELSE IF ~c.isAvailable THEN Fail("markAsPaid", 400, "AlreadySold", c)
    ELSE IF a.price <= 0 THEN Fail("markAsPaid", 400, "Validation", c)
    ELSE IF a.kiloAtSale < 0 THEN Fail("markAsPaid", 400, "Validation", c)
    ELSE Save("markAsPaid",
              [CarMarkAsPaid(c, a.price, a.kiloAtSale)
                   EXCEPT !.isAvailable = FALSE], c)

\* a fault of markAsInstallment: the availability check is missing
MarkAsInstallmentUnguardedResult(c, found, a) ==
    IF a.downPayment = 0 \/ a.remainingAmount = 0 \/ a.months = 0
       \/ a.monthlyPayment = 0 \/ a.buyer # "ok"
    THEN Fail("markAsInstallment", 400, "Validation", c)
    ELSE IF ~found THEN Fail("markAsInstallment", 404, "NotFound", c)
    ELSE IF a.downPayment < 0 \/ a.remainingAmount < 0 \/ a.months < 1
            \/ a.monthlyPayment <= 0
    THEN Fail("markAsInstallment", 400, "Validation", c)
    ELSE Save("markAsInstallment",
              [CarMarkAsInstallment(c, a.downPayment, a.remainingAmount,
                                    a.months, a.monthlyPayment)
                   EXCEPT !.isAvailable = FALSE], c)

\* markAsInstallment: a.* are the fields of req.body.installment
MarkAsInstallmentResult(c, found, a) ==
    IF a.downPayment = 0 \/ a.remainingAmount = 0 \/ a.months = 0
       \/ a.monthlyPayment = 0 \/ a.buyer # "ok"
    THEN Fail("markAsInstallment", 400, "Validation", c)
    ELSE IF ~found THEN Fail("markAsInstallment", 404, "NotFound", c)
    ELSE IF ~c.isAvailable
    THEN Fail("markAsInstallment", 400, "AlreadySold", c)
    ELSE IF a.downPayment < 0 \/ a.remainingAmount < 0 \/ a.months < 1
            \/ a.monthlyPayment <= 0
    THEN Fail("markAsInstallment", 400, "Validation", c)
    ELSE Save("markAsInstallment",
              [CarMarkAsInstallment(c, a.downPayment, a.remainingAmount,
                                    a.months, a.monthlyPayment)
                   EXCEPT !.isAvailable = FALSE], c)

\* a fault of carSchema.methods.addInstallmentPayment: the entry is pushed,
\* the remaining amount is not updated
CarAddInstallmentPaymentNoDecrement(c, amount) ==
    LET inst == Val(c.installment)
    IN [c EXCEPT !.installment =
           Some([inst EXCEPT
                   !.paymentHistory = Append(@, PaymentEntry(0, amount, 0))])]

\* carSchema.methods.addInstallmentPayment
CarAddInstallmentPayment(c, amount) ==
    LET inst == Val(c.installment)
    IN [c EXCEPT !.installment =
           Some([inst EXCEPT
                   !.paymentHistory = Append(@, PaymentEntry(0, amount, 0)),
                   !.remainingAmount = Max(0, @ - amount)])]

\* addInstallmentPayment: amount is req.body.amount
AddInstallmentPaymentResult(c, found, amount) ==
    IF amount = 0
    THEN Fail("addInstallmentPayment", 400, "Validation", c)
    ELSE IF ~found \/ ~Has(c.installment)
    THEN Fail("addInstallmentPayment", 400, "NotInstallment", c)
    ELSE IF amount <= 0
    THEN Fail("addInstallmentPayment", 400, "Validation", c)
    ELSE IF amount > Val(c.installment).remainingAmount
    THEN Fail("addInstallmentPayment", 400, "Validation", c)
    ELSE Save("addInstallmentPayment", CarAddInstallmentPayment(c, amount), c)

\* a fault of UpsertEntry: the entry is pushed without looking for the month
UpsertEntryAlwaysPush(h, month, amount, penalty) ==
    Append(h, PaymentEntry(month, amount, penalty))

\* the paid branch of upsertInstallmentPaymentByMonth: replace the entry of
\* the month when there is one, else push a new entry
UpsertEntry(h, month, amount, penalty) ==
    LET existingIndex == FindIndex(h, month)
    IN IF existingIndex >= 1
       THEN [h EXCEPT ![existingIndex] = PaymentEntry(month, amount, penalty)]
       ELSE Append(h, PaymentEntry(month, amount, penalty))

\* Math.max(0, originalTotal - downPayment - newHistoryPaidTotal)
NewRemainingAmount(originalTotal, downPayment, newHistoryPaidTotal) ==
    Max(0, originalTotal - downPayment - newHistoryPaidTotal)

\* the installment record upsertInstallmentPaymentByMonth assigns
UpsertInstallment(inst, b) ==
    LET monthlyPayment == IF Has(b.amount) THEN Val(b.amount)
                          ELSE inst.monthlyPayment
        currentHistory == inst.paymentHistory
        originalTotal == inst.downPayment + inst.remainingAmount
                            + SumAmounts(currentHistory)
        updatedHistory ==
            IF b.paid
            THEN UpsertEntry(currentHistory, b.monthNumber, monthlyPayment,
                             b.penaltyFee)
            ELSE FilterOutMonth(currentHistory, b.monthNumber)
    IN [inst EXCEPT
          !.paymentHistory = updatedHistory,
          !.remainingAmount =
              NewRemainingAmount(originalTotal, inst.downPayment,
                                 SumAmounts(updatedHistory))]

\* a fault of upsertInstallmentPaymentByMonth: the balance is written as
\* computed, without the clamp at 0 and by an update that runs no validators
UpsertUnclampedResult(c, found, b) ==
    IF b.monthNumber < 1 \/ ~found \/ ~Has(c.installment)
    THEN Fail("upsertInstallmentPaymentByMonth", 400, "Validation", c)
    ELSE LET inst == Val(c.installment)
             up == UpsertInstallment(inst, b)
             balance == ContractTotal(inst) - inst.downPayment
                            - SumAmounts(up.paymentHistory)
         IN [reply |-> Reply("upsertInstallmentPaymentByMonth", 200, "OK"),
             car |-> [c EXCEPT !.installment =
                          Some([up EXCEPT !.remainingAmount = balance])]]

\* a fault of the sort of paidMonths: descending
SortDescending(S) ==
    LET RECURSIVE Down(_)
        Down(T) ==
            IF T = {} THEN <<>>
            ELSE LET m == CHOOSE x \in T : \A y \in T : x >= y
                 IN <<m>> \o Down(T \ {m})
    IN Down(S)

\* Array.from(new Set(...)).sort((a, b) => a - b)
SortAscending(S) ==
    LET RECURSIVE Up(_)
        Up(T) ==
            IF T = {} THEN <<>>
            ELSE LET m == CHOOSE x \in T : \A y \in T : x <= y
                 IN <<m>> \o Up(T \ {m})
    IN Up(S)

\* penaltyMap: for each month number the penalty fee of its last entry
PenaltyMap(h) ==
    [m \in PaidMonths(h) |->
        LET last == CHOOSE i \in 1..Len(h) :
                        /\ h[i].monthNumber = m
                        /\ \A j \in 1..Len(h) : h[j].monthNumber = m => j <= i
        IN h[last].penaltyFee]

\* the data of the reply of upsertInstallmentPaymentByMonth, built after the
\* commit from the saved document and the remaining amount computed before
UpsertSummary(updatedCar, newRemainingAmount) ==
    LET h == Val(updatedCar.installment).paymentHistory
    IN [remainingAmount |-> newRemainingAmount,
        paidMonths |-> SortAscending(PaidMonths(h)),
        penaltyFees |-> PenaltyMap(h),
        totalPenalty |-> SumPenalties(h),
        totalPaid |-> SumAmounts(h)]

\* upsertInstallmentPaymentByMonth: b is req.body
UpsertInstallmentPaymentByMonthResult(c, found, b) ==
    IF b.monthNumber < 1 \/ b.penaltyFee < 0
    THEN Fail("upsertInstallmentPaymentByMonth", 400, "Validation", c)
    ELSE IF ~found \/ ~Has(c.installment)
    THEN Fail("upsertInstallmentPaymentByMonth", 404, "NotInstallment", c)
    ELSE IF Has(b.amount) /\ Val(b.amount) < 0
    THEN Fail("upsertInstallmentPaymentByMonth", 400, "Validation", c)
    ELSE LET up == UpsertInstallment(Val(c.installment), b)
             saved == Save("upsertInstallmentPaymentByMonth",
                           [c EXCEPT !.installment = Some(up)], c)
         IN IF saved.reply.status = 200
            THEN [reply |-> saved.reply
                               @@ [data |-> UpsertSummary(saved.car,
                                                          up.remainingAmount)],
                  car |-> saved.car]
            ELSE saved

\* editSaleInfo: a.* are the fields of req.body
EditSaleInfoResult(c, found, a) ==
    IF ~found \/ ~Has(c.sale)
    THEN Fail("editSaleInfo", 400, "NotSold", c)
    ELSE IF a.buyer = "noPassport"
    THEN Fail("editSaleInfo", 400, "Validation", c)
    ELSE IF Has(a.kiloAtSale) /\ Val(a.kiloAtSale) < 0
    THEN Fail("editSaleInfo", 400, "Validation", c)
    ELSE IF Has(a.price) /\ Val(a.price) <= 0
    THEN Fail("editSaleInfo", 400, "Validation", c)
    ELSE LET sale == Val(c.sale)
             edited == [sale EXCEPT
                          !.kiloAtSale = IF Has(a.kiloAtSale)
                                         THEN Val(a.kiloAtSale) ELSE @,
                          !.price = IF Has(a.price) THEN Val(a.price) ELSE @]
         IN Save("editSaleInfo", [c EXCEPT !.sale = Some(edited)], c)

\* editInstallmentInfo: a.* are the fields of req.body
EditInstallmentInfoResult(c, found, a) ==
    IF ~found \/ ~Has(c.installment)
    THEN Fail("editInstallmentInfo", 400, "NotInstallment", c)
    ELSE IF a.buyer = "noPassport"
    THEN Fail("editInstallmentInfo", 400, "Validation", c)
    ELSE IF Has(a.downPayment) /\ Val(a.downPayment) < 0
    THEN Fail("editInstallmentInfo", 400, "Validation", c)
    ELSE IF Has(a.remainingAmount) /\ Val(a.remainingAmount) < 0
    THEN Fail("editInstallmentInfo", 400, "Validation", c)
    ELSE IF Has(a.months) /\ Val(a.months) < 1
    THEN Fail("editInstallmentInfo", 400, "Validation", c)
    ELSE LET inst == Val(c.installment)
             edited == [inst EXCEPT
                          !.downPayment = IF Has(a.downPayment)
                                          THEN Val(a.downPayment) ELSE @,
                          !.remainingAmount = IF Has(a.remainingAmount)
                                              THEN Val(a.remainingAmount)
                                              ELSE @,
                          !.months = IF Has(a.months)
                                     THEN Val(a.months) ELSE @]
         IN Save("editInstallmentInfo",
                 [c EXCEPT !.installment = Some(edited)], c)

\* editCar, "if (updates.licenseNo !== undefined) car.licenseNo = ...": a body
\* has the field licenseNo or does not have it
AssignLicenseNo(c, a) ==
    IF "licenseNo" \in DOMAIN a
    THEN [licenseNo |-> ToUpperCase(Trim(a.licenseNo))] @@ c
    ELSE c

\* editCar: a.kilo and a.repairs are fields of req.body (images and the
\* descriptive fields are left out).  After commitTransaction the handler
\* reads the document again with Car.findById, still inside the try block:
\* a.reload is the outcome of that read.  When it rejects (or finds nothing)
\* the catch block runs after the commit and the request ends as a failure
\* (status 500, or no reply when abortTransaction refuses to run after a
\* commit).
EditCarResult(c, found, a) ==
    IF ~found THEN Fail("editCar", 404, "NotFound", c)
    ELSE IF Has(a.repairs)
            /\ \E i \in 1..Len(Val(a.repairs)) : Val(a.repairs)[i] < 0
    THEN Fail("editCar", 400, "Validation", c)
    ELSE LET saved ==
                 Save("editCar",
                      AssignLicenseNo(
                          [c EXCEPT
                             !.repairs = IF Has(a.repairs)
                                         THEN Val(a.repairs) ELSE @,
                             !.kilo = IF Has(a.kilo) THEN Val(a.kilo) ELSE @],
                          a),
                      c)
         IN IF saved.reply.status = 200 /\ a.reload = "fails"
            THEN [reply |-> Reply("editCar", 500, "ServerError"),
                  car |-> saved.car]
            ELSE saved

\* addRepair: a.description, a.cost are fields of req.body
AddRepairResult(c, found, a) ==
    IF ~a.description \/ ~Has(a.cost)
    THEN Fail("addRepair", 400, "Validation", c)
    ELSE IF ~found THEN Fail("addRepair", 404, "NotFound", c)
    ELSE Save("addRepair",
              [c EXCEPT !.repairs = Append(@, Val(a.cost))], c)

\* a fault of the "is sold" guard: it never rejects
NotSoldNeverRejects(c) == FALSE

\* the "is sold" guard of ownerBookTransfer
NotSold(c) == (~Has(c.sale) /\ ~Has(c.installment)) \/ c.isAvailable

\* the "fully paid" guard of ownerBookTransfer
NotFullyPaid(c) ==
    c.boughtType = "Installment" /\ Has(c.installment)
        /\ Val(c.installment).remainingAmount > 0

AlreadyTransferred(c) ==
    Has(c.ownerBookTransfer) /\ Val(c.ownerBookTransfer).transferred

\* the transfer record ownerBookTransfer writes (the transfer date is the
\* clock's and is left out)
TransferRecord(notes) == [transferred |-> TRUE, notes |-> notes]

\* a fault of ownerBookTransfer: the "already transferred" check is missing
OwnerBookTransferAgainResult(c, found, notes) ==
    IF ~found THEN Fail("ownerBookTransfer", 404, "NotFound", c)
    ELSE IF NotSold(c) THEN Fail("ownerBookTransfer", 400, "NotSold", c)
    ELSE IF NotFullyPaid(c)
    THEN Fail("ownerBookTransfer", 400, "NotFullyPaid", c)
    ELSE Save("ownerBookTransfer",
              [c EXCEPT !.ownerBookTransfer = Some(TransferRecord(notes)),
                        !.isAvailable = FALSE],
              c)

\* ownerBookTransfer: notes is req.body.notes ("" when omitted)
OwnerBookTransferResult(c, found, notes) ==
    IF ~found THEN Fail("ownerBookTransfer", 404, "NotFound", c)
    ELSE IF NotSold(c) THEN Fail("ownerBookTransfer", 400, "NotSold", c)
    ELSE IF AlreadyTransferred(c)
    THEN Fail("ownerBookTransfer", 400, "AlreadyTransferred", c)
    ELSE IF NotFullyPaid(c)
    THEN Fail("ownerBookTransfer", 400, "NotFullyPaid", c)
    ELSE Save("ownerBookTransfer",
              [c EXCEPT !.ownerBookTransfer = Some(TransferRecord(notes)),
                        !.isAvailable = FALSE],
              c)

\* req.body.notes of ownerBookTransfer: omitted or given
TransferNotes == {"", "note"}

\* req.body.sale.buyer / req.body.installment.buyer: complete, or without
\* passport
SaleBuyerInputs == {"ok", "noPassport"}

PaidArgs ==
    [price : Prices, soldDate : BOOLEAN, kiloAtSale : Kilos,
     buyer : SaleBuyerInputs]

InstallmentArgs ==
    [downPayment : Amounts, remainingAmount : Amounts, months : Terms,
     monthlyPayment : MonthlyPayments, buyer : SaleBuyerInputs]

LedgerReqs ==
    {LedgerReq(m, paid, amount, penalty) :
        m \in 0..MaxMonth, paid \in BOOLEAN, amount \in Opt(Amounts),
        penalty \in Penalties}

\* req.body.buyer of the edit routes: omitted, or given without passport
BuyerInputs == {"absent", "noPassport"}

EditSaleArgs ==
    [buyer : BuyerInputs, kiloAtSale : Opt(Kilos), price : Opt(Prices)]

EditInstallmentArgs ==
    [buyer : BuyerInputs, downPayment : Opt(Amounts),
     remainingAmount : Opt(Amounts), months : Opt(Terms)]

Costs == 0..MaxCost

RepairLists == {<<>>} \cup {<<x>> : x \in Costs}

\* the outcome of the read that follows the commit in editCar
ReloadOutcomes == {"ok", "fails"}

EditCarArgs ==
    [kilo : Opt(-1..MaxKilo), repairs : Opt(RepairLists),
     reload : ReloadOutcomes]

RepairArgs == [description : BOOLEAN, cost : Opt(Costs)]

\* --------------------------------------------------------------- requests
\* The bodies tried against an id: every body for the car, one for an id
\* that findById does not find.
For(id, bodies) == IF id = "car" THEN bodies ELSE {CHOOSE b \in bodies : TRUE}

\* A finished request: the document is replaced by what the handler
\* persisted and the reply is recorded.
Finish(r) ==
    /\ car' = r.car
    /\ response' = r.reply
    /\ UNCHANGED <<pre, req, repeated, txn, version, upload>>

\* The same, also recording the document as it was and the monthly-payment
\* body.
FinishLedger(body, r) ==
    /\ car' = r.car
    /\ response' = r.reply
    /\ pre' = car
    /\ req' = body
    /\ repeated' = (/\ body # NoReq
                    /\ body = req
                    /\ response.op = "upsertInstallmentPaymentByMonth"
                    /\ response.status = 200)
    /\ UNCHANGED <<txn, version, upload>>

\* room in the ledger for what the request would append
LedgerRoomForPayment(c) ==
    Has(c.installment) => Len(Val(c.installment).paymentHistory) < MaxLedger

LedgerRoomForUpsert(c, b) ==
    Has(c.installment) =>
        Len(UpsertInstallment(Val(c.installment), b).paymentHistory)
            <= MaxLedger

MarkAsPaid ==
    \E id \in Ids : \E a \in For(id, PaidArgs) :
        Finish(MarkAsPaidResult(car, id = "car", a))

MarkAsInstallment ==
    \E id \in Ids : \E a \in For(id, InstallmentArgs) :
        Finish(MarkAsInstallmentResult(car, id = "car", a))

AddInstallmentPayment ==
    \E id \in Ids : \E amount \in For(id, Amounts) :
        /\ LedgerRoomForPayment(car)
        /\ Finish(AddInstallmentPaymentResult(car, id = "car", amount))

UpsertInstallmentPaymentByMonth ==
    \E id \in Ids : \E b \in For(id, LedgerReqs) :
        /\ LedgerRoomForUpsert(car, b)
        /\ Finish(UpsertInstallmentPaymentByMonthResult(car, id = "car", b))

EditSaleInfo ==
    \E id \in Ids : \E a \in For(id, EditSaleArgs) :
        Finish(EditSaleInfoResult(car, id = "car", a))

EditInstallmentInfo ==
    \E id \in Ids : \E a \in For(id, EditInstallmentArgs) :
        Finish(EditInstallmentInfoResult(car, id = "car", a))

EditCar ==
    \E id \in Ids : \E a \in For(id, EditCarArgs) :
        Finish(EditCarResult(car, id = "car", a))

AddRepair ==
    \E id \in Ids : \E a \in For(id, RepairArgs) :
        /\ Len(car.repairs) < MaxRepairs
        /\ Finish(AddRepairResult(car, id = "car", a))

OwnerBookTransfer ==
    \E id \in Ids : \E notes \in For(id, TransferNotes) :
        Finish(OwnerBookTransferResult(car, id = "car", notes))

\* the state after createCar
Init ==
    /\ car \in {NewCar(k) : k \in Kilos}
    /\ response = Reply("createCar", 201, "OK")
    /\ pre = NewCar(0)
    /\ req = NoReq
    /\ repeated = FALSE
    /\ txn = [p \in Procs |-> IdleTxn]
    /\ version = 0
    /\ upload = NoUpload

Next ==
    \/ MarkAsPaid
    \/ MarkAsInstallment
    \/ AddInstallmentPayment
    \/ UpsertInstallmentPaymentByMonth
    \/ EditSaleInfo
    \/ EditInstallmentInfo
    \/ EditCar
    \/ AddRepair
    \/ OwnerBookTransfer

Spec == Init /\ [][Next]_vars

\* ------------------------------------------------- the installment ledger
\* The requests of the installment routes on one car, with the body of the
\* monthly-payment requests recorded.
LedgerSell ==
    \E a \in InstallmentArgs :
        FinishLedger(NoReq, MarkAsInstallmentResult(car, TRUE, a))

LedgerPay ==
    \E amount \in Amounts :
        /\ LedgerRoomForPayment(car)
        /\ FinishLedger(NoReq, AddInstallmentPaymentResult(car, TRUE, amount))

LedgerUpsert ==
    \E b \in LedgerReqs :
        /\ LedgerRoomForUpsert(car, b)
        /\ FinishLedger(b, UpsertInstallmentPaymentByMonthResult(car, TRUE, b))

LedgerEdit ==
    \E a \in EditInstallmentArgs :
        FinishLedger(NoReq, EditInstallmentInfoResult(car, TRUE, a))

NextLedger ==
    \/ LedgerSell
    \/ LedgerPay
    \/ LedgerUpsert
    \/ LedgerEdit

SpecLedger == Init /\ [][NextLedger]_vars

\* -------------------------------------------- two concurrent mark-sold calls
\* Each request runs its handler in a transaction of its own session:
\* findById reads the document (the transaction's snapshot), save writes it
\* and throws a write conflict when another transaction has written the
\* document since the snapshot or holds an uncommitted write of it,
\* commitTransaction makes the write visible.  The handler's catch block
\* answers a thrown error with status 500.
MarkResult(op, c, body) ==
    IF op = "markAsPaid" THEN MarkAsPaidResult(c, TRUE, body)
    ELSE MarkAsInstallmentResult(c, TRUE, body)

\* the payment handlers, run in the same way
PayResult(op, c, body) ==
    IF op = "addInstallmentPayment"
    THEN AddInstallmentPaymentResult(c, TRUE, body)
    ELSE UpsertInstallmentPaymentByMonthResult(c, TRUE, body)

TxnResult(op, c, body) ==
    IF op \in {"markAsPaid", "markAsInstallment"}
    THEN MarkResult(op, c, body)
    ELSE PayResult(op, c, body)

WriteHeldByOther(p) == \E q \in Procs \ {p} : txn[q].pc = "saved"

\* startTransaction, the required-fields check and findById
TxnFind(p) ==
    /\ txn[p].pc = "idle"
    /\ \E op \in {"markAsPaid", "markAsInstallment"} :
       \E body \in (IF op = "markAsPaid" THEN PaidArgs ELSE InstallmentArgs) :
           txn' = [txn EXCEPT ![p] =
                      [pc |-> "read", op |-> op, body |-> Some(body),
                       snap |-> Some(car), ver |-> version, reply |-> NULL]]
    /\ UNCHANGED <<car, response, pre, req, repeated, version, upload>>

\* the checks after findById, the mutation and car.save({ session })
TxnSave(p) ==
    /\ txn[p].pc = "read"
    /\ LET t == txn[p]
           r == TxnResult(t.op, Val(t.snap), Val(t.body))
       IN IF r.reply.status # 200
          THEN txn' = [txn EXCEPT ![p].pc = "done",
                                  ![p].reply = Some(r.reply)]
          ELSE IF t.ver # version \/ WriteHeldByOther(p)
          THEN txn' = [txn EXCEPT ![p].pc = "done",
                                  ![p].reply =
                                      Some(Reply(t.op, 500, "ServerError"))]
          ELSE txn' = [txn EXCEPT ![p].pc = "saved",
                                  ![p].snap = Some(r.car),
                                  ![p].reply = Some(r.reply)]
    /\ UNCHANGED <<car, response, pre, req, repeated, version, upload>>

\* session.commitTransaction() and the reply
TxnCommit(p) ==
    /\ txn[p].pc = "saved"
    /\ car' = Val(txn[p].snap)
    /\ version' = version + 1
    /\ response' = Val(txn[p].reply)
    /\ txn' = [txn EXCEPT ![p].pc = "done"]
    /\ UNCHANGED <<pre, req, repeated, upload>>

NextMark == \E p \in Procs : TxnFind(p) \/ TxnSave(p) \/ TxnCommit(p)

SpecMark == Init /\ [][NextMark]_vars

\* ------------------------------------------------ two concurrent payments
\* Two payment requests on a vehicle just sold on installment; pre is the
\* document before both.
InitPay ==
    /\ \E a \in InstallmentArgs :
          LET r == MarkAsInstallmentResult(NewCar(0), TRUE, a)
          IN r.reply.status = 200 /\ car = r.car /\ response = r.reply
    /\ pre = car
    /\ req = NoReq
    /\ repeated = FALSE
    /\ txn = [p \in Procs |-> IdleTxn]
    /\ version = 0
    /\ upload = NoUpload

\* startTransaction, the checks of the body and findById
PayFind(p) ==
    /\ txn[p].pc = "idle"
    /\ \E op \in {"addInstallmentPayment", "upsertInstallmentPaymentByMonth"} :
       \E body \in (IF op = "addInstallmentPayment" THEN Amounts
                    ELSE LedgerReqs) :
           txn' = [txn EXCEPT ![p] =
                      [pc |-> "read", op |-> op, body |-> Some(body),
                       snap |-> Some(car), ver |-> version, reply |-> NULL]]
    /\ UNCHANGED <<car, response, pre, req, repeated, version, upload>>

NextPay == \E p \in Procs : PayFind(p) \/ TxnSave(p) \/ TxnCommit(p)

SpecPay == InitPay /\ [][NextPay]_vars

\* ------------------------------------------------------------------ profit
\* The profit figures of a sold vehicle.  The documents read here carry the
\* purchase price and the asking price next to the fields above; no handler
\* of Spec reads them.
PricedCar(c, purchasePrice, priceToSell) ==
    c @@ [purchasePrice |-> purchasePrice, priceToSell |-> priceToSell]

\* carSchema.virtual("profit"): NULL when there is neither a sale with a
\* price nor an installment
Profit(c) ==
    LET totalRepairs == SumCosts(c.repairs)
    IN IF Has(c.sale) /\ Val(c.sale).price # 0
       THEN Some(Val(c.sale).price - (c.purchasePrice + totalRepairs))
       ELSE IF Has(c.installment)
       THEN LET totalInstallment == Val(c.installment).downPayment
                                      + Val(c.installment).remainingAmount
            IN Some(totalInstallment - (c.purchasePrice + totalRepairs))
       ELSE NULL

\* a fault of calculateCarProfit: a cash sale is valued at the asking price
CalculateCarProfitAskingPrice(c) ==
    LET totalRepairs == SumCosts(c.repairs)
    IN [soldPrice |-> c.priceToSell,
        totalRepairs |-> totalRepairs,
        profit |-> c.priceToSell - c.purchasePrice - totalRepairs]

\* calculateCarProfit: one row of the general profit report
CalculateCarProfit(c) ==
    LET totalRepairs == SumCosts(c.repairs)
        soldPrice == IF Has(c.sale) THEN Val(c.sale).price ELSE c.priceToSell
    IN [soldPrice |-> soldPrice,
        totalRepairs |-> totalRepairs,
        profit |-> soldPrice - c.purchasePrice - totalRepairs]

\* a fault of calculateCarProfitDetails: the contract value of an installment
\* sale leaves out the payments of the ledger
CalculateCarProfitDetailsNoLedger(c) ==
    LET totalRepairs == SumCosts(c.repairs)
        inst == Val(c.installment)
    IN IF Has(c.sale)
       THEN [soldPrice |-> Val(c.sale).price,
             contractValue |-> Val(c.sale).price,
             totalRepairs |-> totalRepairs,
             generalProfit |-> Val(c.sale).price - c.purchasePrice
                                  - totalRepairs,
             detailedProfit |-> Val(c.sale).price - c.purchasePrice
                                   - totalRepairs,
             totalPaid |-> Val(c.sale).price,
             penaltyFeesTotal |-> 0,
             remainingAmount |-> 0]
       ELSE [soldPrice |-> c.priceToSell,
             contractValue |-> inst.downPayment + inst.remainingAmount,
             totalRepairs |-> totalRepairs,
             generalProfit |-> c.priceToSell - c.purchasePrice - totalRepairs,
             detailedProfit |-> inst.downPayment + inst.remainingAmount
                                   - c.purchasePrice - totalRepairs,
             totalPaid |-> inst.downPayment,
             penaltyFeesTotal |-> SumPenalties(inst.paymentHistory),
             remainingAmount |-> inst.remainingAmount]

\* calculateCarProfitDetails: one row of the detailed profit report
CalculateCarProfitDetails(c) ==
    LET totalRepairs == SumCosts(c.repairs)
    IN IF Has(c.sale)
       THEN LET soldPrice == Val(c.sale).price
                generalProfit == soldPrice - c.purchasePrice - totalRepairs
            IN [soldPrice |-> soldPrice,
                contractValue |-> soldPrice,
                totalRepairs |-> totalRepairs,
                generalProfit |-> generalProfit,
                detailedProfit |-> generalProfit,
                totalPaid |-> soldPrice,
                penaltyFeesTotal |-> 0,
                remainingAmount |-> 0]
       ELSE IF Has(c.installment)
       THEN LET inst == Val(c.installment)
                downPayment == inst.downPayment
                paymentHistoryTotal == SumAmounts(inst.paymentHistory)
                totalPaid == downPayment + paymentHistoryTotal
                remainingAmount == inst.remainingAmount
                contractValue == totalPaid + remainingAmount
            IN [soldPrice |-> c.priceToSell,
                contractValue |-> contractValue,
                totalRepairs |-> totalRepairs,
                generalProfit |-> c.priceToSell - c.purchasePrice
                                     - totalRepairs,
                detailedProfit |-> contractValue - c.purchasePrice
                                      - totalRepairs,
                totalPaid |-> totalPaid,
                penaltyFeesTotal |-> SumPenalties(inst.paymentHistory),
                remainingAmount |-> remainingAmount]
       ELSE [soldPrice |-> c.priceToSell,
             contractValue |-> c.priceToSell,
             totalRepairs |-> totalRepairs,
             generalProfit |-> c.priceToSell - c.purchasePrice - totalRepairs,
             detailedProfit |-> c.priceToSell - c.purchasePrice - totalRepairs,
             totalPaid |-> c.priceToSell,
             penaltyFeesTotal |-> 0,
             remainingAmount |-> 0]

\* report.reduce((sum, r) => sum + r.generalProfit, 0)
RECURSIVE TotalGeneralProfit(_)
TotalGeneralProfit(report) ==
    IF report = <<>> THEN 0
    ELSE Head(report).generalProfit + TotalGeneralProfit(Tail(report))

\* report.reduce((sum, r) => sum + r.detailedProfit, 0)
RECURSIVE TotalDetailedProfit(_)
TotalDetailedProfit(report) ==
    IF report = <<>> THEN 0
    ELSE Head(report).detailedProfit + TotalDetailedProfit(Tail(report))

\* the financingIncome of getInstallmentProfitAnalysis's summary
FinancingIncome(report) ==
    TotalDetailedProfit(report) - TotalGeneralProfit(report)

\* the repairs of the vehicles whose profit is read
ProfitRepairLists == UNION {[1..n -> Prices] : n \in 0..MaxRepairs}

\* vehicles with their prices, just sold by markAsPaid or markAsInstallment
JustSold ==
    LET stock == {PricedCar([NewCar(k) EXCEPT !.repairs = r], p, q) :
                     k \in Kilos, r \in ProfitRepairLists,
                     p \in Prices, q \in Prices}
        sales == {MarkAsPaidResult(c, TRUE, a) : c \in stock, a \in PaidArgs}
                 \cup {MarkAsInstallmentResult(c, TRUE, a) :
                          c \in stock, a \in InstallmentArgs}
    IN {r \in sales : r.reply.status = 200}

InitProfit ==
    /\ \E r \in JustSold : car = r.car /\ response = r.reply
    /\ pre = NewCar(0)
    /\ req = NoReq
    /\ repeated = FALSE
    /\ txn = [p \in Procs |-> IdleTxn]
    /\ version = 0
    /\ upload = NoUpload

\* a payment moves money from the remaining amount into the ledger
ProfitPay ==
    \E amount \in Amounts :
        /\ LedgerRoomForPayment(car)
        /\ Finish(AddInstallmentPaymentResult(car, TRUE, amount))

ProfitUpsert ==
    \E b \in LedgerReqs :
        /\ LedgerRoomForUpsert(car, b)
        /\ Finish(UpsertInstallmentPaymentByMonthResult(car, TRUE, b))

\* the document is serialised with its virtuals
ReadProfit ==
    Finish([reply |-> Reply("profit", 200, "OK") @@ [profit |-> Profit(car)],
            car |-> car])

\* calculateCarProfit applied to the vehicle: its row of a general report
GeneralProfitRow ==
    Finish([reply |-> Reply("calculateCarProfit", 200, "OK")
                        @@ [cars |-> <<CalculateCarProfit(car)>>],
            car |-> car])

\* calculateCarProfitDetails applied to the vehicle: its row of a detailed
\* report, and the summary's financingIncome over that row
DetailedProfitRow ==
    LET report == <<CalculateCarProfitDetails(car)>>
    IN Finish([reply |-> Reply("calculateCarProfitDetails", 200, "OK")
                           @@ [cars |-> report,
                               financingIncome |-> FinancingIncome(report)],
               car |-> car])

NextProfit ==
    \/ ProfitPay
    \/ ProfitUpsert
    \/ ReadProfit
    \/ GeneralProfitRow
    \/ DetailedProfitRow

SpecProfit == InitProfit /\ [][NextProfit]_vars

\* ----------------------------------------------------------- period reports
\* Time is a count of instants: a day is DayLength instants, a month
\* MonthLength days, a year 12 months.  A date of the document is an instant.
MonthInstants == MonthLength * DayLength

Dates == 0..((MaxYear + 1) * 12 * MonthInstants - 1)

\* now.getFullYear() and now.getMonth() (0 = January)
GetFullYear(t) == t \div (12 * MonthInstants)

GetMonth(t) == (t \div MonthInstants) % 12

\* the day of the month, from 1, and the time of the day, from 0
GetDate(t) == ((t % MonthInstants) \div DayLength) + 1

GetTime(t) == t % DayLength

\* new Date(year, month, 1): midnight of the first day of the month; month
\* may be negative and then counts back from January
FirstOfMonth(year, month) == (year * 12 + month) * MonthInstants

Periods == {"monthly", "6months", "yearly", "weekly"}

\* req.query.period: NULL when the query has none
PeriodQueries == Opt(Periods)

\* a fault of getDateRange: the yearly range starts five years back
GetDateRangeFiveYears(period, now) ==
    IF period = Some("monthly")
    THEN Some([startDate |-> FirstOfMonth(GetFullYear(now), GetMonth(now)),
               now |-> now])
    ELSE IF period = Some("6months")
    THEN Some([startDate |-> FirstOfMonth(GetFullYear(now), GetMonth(now) - 5),
               now |-> now])
    ELSE IF period = Some("yearly")
    THEN Some([startDate |-> FirstOfMonth(GetFullYear(now) - 5, 0),
               now |-> now])
    ELSE NULL

\* getDateRange: NULL when it throws "Invalid period"
GetDateRange(period, now) ==
    IF period = Some("monthly")
    THEN Some([startDate |-> FirstOfMonth(GetFullYear(now), GetMonth(now)),
               now |-> now])
    ELSE IF period = Some("6months")
    THEN Some([startDate |-> FirstOfMonth(GetFullYear(now), GetMonth(now) - 5),
               now |-> now])
    ELSE IF period = Some("yearly")
    THEN Some([startDate |-> FirstOfMonth(GetFullYear(now), 0), now |-> now])
    ELSE NULL

\* { $gte: startDate, $lte: now }
InRange(t, range) == t >= range.startDate /\ t <= range.now

\* the document with the date of its sale (sale.date, installment.startDate)
SoldAt(c, t) ==
    IF Has(c.sale)
    THEN [c EXCEPT !.sale = Some(Val(c.sale) @@ [date |-> t])]
    ELSE [c EXCEPT !.installment = Some(Val(c.installment) @@ [startDate |-> t])]

\* the document with the date of its owner book transfer
TransferredAt(c, t) ==
    [c EXCEPT !.ownerBookTransfer =
                  Some(Val(c.ownerBookTransfer) @@ [transferDate |-> t])]

\* the first branch of the $or: a cash sale by sale.date
PaidBranch(c, range) ==
    /\ Has(c.sale)
    /\ InRange(Val(c.sale).date, range)
    /\ c.boughtType = "Paid"

\* a fault of the second branch: the installment sale is selected by its
\* start date, fully paid and transferred or not
InstallmentBranchByStartDate(c, range) ==
    /\ Has(c.installment)
    /\ InRange(Val(c.installment).startDate, range)
    /\ c.boughtType = "Installment"

\* the second branch of the $or: a completed installment sale by
\* ownerBookTransfer.transferDate
InstallmentBranch(c, range) ==
    /\ Has(c.ownerBookTransfer)
    /\ InRange(Val(c.ownerBookTransfer).transferDate, range)
    /\ c.boughtType = "Installment"
    /\ Has(c.installment)
    /\ Val(c.installment).remainingAmount <= 0
    /\ Val(c.ownerBookTransfer).transferred

\* the reply of a report: the rows of the documents found
Report(op, rows) == Reply(op, 200, "OK") @@ [cars |-> rows]

\* a fault of the catch block: the thrown "Invalid period" is answered as
\* any other error
InvalidPeriodAsFailure(op) ==
    Reply(op, 500, "ServerError") @@ [cars |-> <<>>]

\* the reply to a period that is not monthly, 6months or yearly
InvalidPeriod(op) == Reply(op, 400, "InvalidPeriod") @@ [cars |-> <<>>]

\* the reply of getInstallmentProfitAnalysis to a query without period
PeriodRequired(op) == Reply(op, 400, "PeriodRequired") @@ [cars |-> <<>>]

\* getProfitAnalysis on a collection that holds the document c
GetProfitAnalysisResult(c, period, now) ==
    LET range == GetDateRange(period, now)
    IN IF range = NULL THEN InvalidPeriod("getProfitAnalysis")
       ELSE Report("getProfitAnalysis",
                   IF /\ PaidBranch(c, Val(range))
                         \/ InstallmentBranch(c, Val(range))
                      /\ ~c.isAvailable
                   THEN <<CalculateCarProfit(c)>> ELSE <<>>)

\* getPaidProfitAnalysis
GetPaidProfitAnalysisResult(c, period, now) ==
    LET range == GetDateRange(period, now)
    IN IF range = NULL THEN InvalidPeriod("getPaidProfitAnalysis")
       ELSE Report("getPaidProfitAnalysis",
                   IF PaidBranch(c, Val(range)) /\ ~c.isAvailable
                   THEN <<CalculateCarProfit(c)>> ELSE <<>>)

\* getInstallmentProfitAnalysis: the period is validated before the range
\* is asked for
GetInstallmentProfitAnalysisResult(c, period, now) ==
    LET range == GetDateRange(period, now)
    IN IF period = NULL THEN PeriodRequired("getInstallmentProfitAnalysis")
       ELSE IF period \notin {Some("monthly"), Some("6months"), Some("yearly")}
       THEN InvalidPeriod("getInstallmentProfitAnalysis")
       ELSE IF range = NULL
       THEN Reply("getInstallmentProfitAnalysis", 500, "ServerError")
                @@ [cars |-> <<>>]
       ELSE Report("getInstallmentProfitAnalysis",
                   IF InstallmentBranch(c, Val(range)) /\ ~c.isAvailable
                   THEN <<CalculateCarProfitDetails(c)>> ELSE <<>>)

\* Sold vehicles as the handlers leave them: a cash sale, an installment
\* sale, the installment sale paid up, each of the completed ones with the
\* owner book transferred, and the transferred installment sale with its
\* remaining amount edited afterwards.
SoldShapes ==
    LET stock == PricedCar(NewCar(MaxKilo), MaxPrice, MaxPrice)
        cash == MarkAsPaidResult(stock, TRUE,
                    [price |-> MaxPrice, soldDate |-> TRUE,
                     kiloAtSale |-> MaxKilo, buyer |-> "ok"]).car
        inst == MarkAsInstallmentResult(stock, TRUE,
                    [downPayment |-> MaxAmount, remainingAmount |-> MaxAmount,
                     months |-> MaxTerm, monthlyPayment |-> MaxMonthly,
                     buyer |-> "ok"]).car
        paidUp == AddInstallmentPaymentResult(inst, TRUE, MaxAmount).car
        cashDone == OwnerBookTransferResult(cash, TRUE, "").car
        instDone == OwnerBookTransferResult(paidUp, TRUE, "").car
        reopened == EditInstallmentInfoResult(instDone, TRUE,
                        [buyer |-> "absent", downPayment |-> NULL,
                         remainingAmount |-> Some(MaxAmount),
                         months |-> NULL]).car
    IN {cash, inst, paidUp, cashDone, instDone, reopened}

\* the same with their dates
ReportCars ==
    {SoldAt(c, s) : c \in {x \in SoldShapes : ~Has(x.ownerBookTransfer)},
                    s \in Dates}
    \cup {TransferredAt(SoldAt(c, s), t) :
             c \in {x \in SoldShapes : Has(x.ownerBookTransfer)},
             s \in Dates, t \in Dates}

\* a report request: its query and the time at which it is served
ReportRequests == [period : PeriodQueries, now : Dates]

InitReport ==
    /\ car \in ReportCars
    /\ response = Reply("ownerBookTransfer", 200, "OK")
    /\ pre = NewCar(0)
    /\ req \in ReportRequests
    /\ repeated = FALSE
    /\ txn = [p \in Procs |-> IdleTxn]
    /\ version = 0
    /\ upload = NoUpload

GetProfitAnalysis ==
    Finish([reply |-> GetProfitAnalysisResult(car, req.period, req.now),
            car |-> car])

GetPaidProfitAnalysis ==
    Finish([reply |-> GetPaidProfitAnalysisResult(car, req.period, req.now),
            car |-> car])

GetInstallmentProfitAnalysis ==
    Finish([reply |-> GetInstallmentProfitAnalysisResult(car, req.period,
                                                         req.now),
            car |-> car])

NextReport ==
    \/ GetProfitAnalysis
    \/ GetPaidProfitAnalysis
    \/ GetInstallmentProfitAnalysis

SpecReport == InitReport /\ [][NextReport]_vars

\* ---------------------------------------------------------- license number
\* The documents of this part carry their licenseNo next to the fields above.
Texts == UNION {[1..n -> Chars] : n \in 0..MaxPlate}

\* createCar: the document it saves for a body with this licenseNo, NULL
\* when the save is rejected
CreateCar(licenseNo, kilo) ==
    LET c == [licenseNo |-> ToUpperCase(Trim(licenseNo))] @@ NewCar(kilo)
    IN IF SchemaValid(c) THEN Some(c) ELSE NULL

\* bodies of editCar with a licenseNo
EditCarLicenseArgs ==
    {[licenseNo |-> t] @@ a :
        t \in Texts,
        a \in {x \in EditCarArgs : ~Has(x.repairs) /\ x.kilo \in Opt({MaxKilo})}}

InitPlate ==
    /\ \E t \in Texts, k \in 0..MaxKilo :
          /\ CreateCar(t, k) # NULL
          /\ car = Val(CreateCar(t, k))
    /\ response = Reply("createCar", 201, "OK")
    /\ pre = NewCar(0)
    /\ req = NoReq
    /\ repeated = FALSE
    /\ txn = [p \in Procs |-> IdleTxn]
    /\ version = 0
    /\ upload = NoUpload

EditCarLicense ==
    \E id \in Ids : \E a \in For(id, EditCarLicenseArgs) :
        Finish(EditCarResult(car, id = "car", a))

NextPlate ==
    \/ EditCarLicense
    \/ EditCar
    \/ AddRepair
    \/ MarkAsPaid
    \/ MarkAsInstallment
    \/ AddInstallmentPayment
    \/ OwnerBookTransfer

SpecPlate == InitPlate /\ [][NextPlate]_vars

\* -------------------------------------------------------------- createCar
\* createCar uploads the files of the request together (Promise.all over
\* streamUpload), then saves the document with the images.  upload.files[i]
\* is what became of file i: "pending", "stored" at the image service, or
\* "failed".  Promise.all rejects with the first upload that fails and does
\* not stop the others.
FileSets == UNION {[1..n -> {"pending"}] : n \in 0..MaxFiles}

Stored(u) == {i \in DOMAIN u.files : u.files[i] = "stored"}

InitCreate ==
    /\ car \in {NewCar(k) : k \in Kilos}
    /\ response = Reply("none", 0, "none")
    /\ pre = NewCar(0)
    /\ req = NoReq
    /\ repeated = FALSE
    /\ txn = [p \in Procs |-> IdleTxn]
    /\ version = 0
    /\ upload \in {[NoUpload EXCEPT !.pc = "uploading", !.files = f] :
                      f \in FileSets}

\* one streamUpload settles
UploadSettles ==
    /\ \E i \in DOMAIN upload.files : \E outcome \in {"stored", "failed"} :
          /\ upload.files[i] = "pending"
          /\ upload' = [upload EXCEPT !.files[i] = outcome]
    /\ UNCHANGED <<car, response, pre, req, repeated, txn, version>>

\* Promise.all resolves (or there is no file): the public ids are recorded
UploadsDone ==
    /\ upload.pc = "uploading"
    /\ \A i \in DOMAIN upload.files : upload.files[i] = "stored"
    /\ upload' = [upload EXCEPT !.pc = "saving",
                                !.uploadedImageIds = DOMAIN upload.files]
    /\ UNCHANGED <<car, response, pre, req, repeated, txn, version>>

\* Promise.all rejects: the catch block rethrows and the outer catch answers
UploadFails ==
    /\ upload.pc = "uploading"
    /\ \E i \in DOMAIN upload.files : upload.files[i] = "failed"
    /\ upload' = [upload EXCEPT !.pc = "done"]
    /\ response' = Reply("createCar", 500, "UploadFailed")
    /\ UNCHANGED <<car, pre, req, repeated, txn, version>>

\* the catch block of the save: cloudinary.uploader.destroy for every
\* recorded public id
Cleanup(u) == [u EXCEPT !.destroyed = u.uploadedImageIds]

\* newCar.save(), Car.findById and the reply; a throw of either is answered
\* after the cleanup
SaveCar ==
    /\ upload.pc = "saving"
    /\ \E outcome \in {"ok", "saveFails", "reloadFails"} :
          IF outcome = "ok"
          THEN /\ upload' = [upload EXCEPT !.pc = "done", !.saved = TRUE]
               /\ response' = Reply("createCar", 201, "OK")
          ELSE /\ upload' = [Cleanup(upload) EXCEPT
                                !.pc = "done",
                                !.saved = (outcome = "reloadFails")]
               /\ response' = Reply("createCar", 500, "SaveFailed")
    /\ UNCHANGED <<car, pre, req, repeated, txn, version>>

NextCreate ==
    \/ UploadSettles
    \/ UploadsDone
    \/ UploadFails
    \/ SaveCar

SpecCreate == InitCreate /\ [][NextCreate]_vars

\* ------------------------------------------------ the monthly-payment summary
\* Monthly payments with penalty fees, on vehicles just sold on installment.
PenaltyFees == 0..(MaxPenalty + 1)

SummaryReqs ==
    {LedgerReq(m, paid, amount, penalty) :
        m \in MonthNumbers, paid \in BOOLEAN, amount \in Opt(Amounts),
        penalty \in PenaltyFees}

InitSummary ==
    /\ \E a \in InstallmentArgs :
          LET r == MarkAsInstallmentResult(NewCar(0), TRUE, a)
          IN r.reply.status = 200 /\ car = r.car /\ response = r.reply
    /\ pre = NewCar(0)
    /\ req = NoReq
    /\ repeated = FALSE
    /\ txn = [p \in Procs |-> IdleTxn]
    /\ version = 0
    /\ upload = NoUpload

SummaryUpsert ==
    \E b \in SummaryReqs :
        /\ LedgerRoomForUpsert(car, b)
        /\ FinishLedger(b, UpsertInstallmentPaymentByMonthResult(car, TRUE, b))

NextSummary ==
    \/ SummaryUpsert
    \/ LedgerPay

SpecSummary == InitSummary /\ [][NextSummary]_vars

\* ------------------------------------------- the transaction of a request
\* Every mutating handler starts a session and a transaction, runs its body
\* in a try block whose catch block calls abortTransaction and answers 500,
\* and ends the session in the finally block.  txn[p].state is the state of
\* the transaction, txn[p].replies the number of responses sent,
\* txn[p].abortOnCommitted whether abortTransaction was called after the
\* commit (the driver then throws, inside the catch block).
SessionOps ==
    {"markAsPaid", "markAsInstallment", "addInstallmentPayment",
     "upsertInstallmentPaymentByMonth", "editSaleInfo", "editInstallmentInfo",
     "editCar", "addRepair", "ownerBookTransfer"}

SessionBodies(op) ==
    CASE op = "markAsPaid" -> PaidArgs
      [] op = "markAsInstallment" -> InstallmentArgs
      [] op = "addInstallmentPayment" -> Amounts
      [] op = "upsertInstallmentPaymentByMonth" -> LedgerReqs
      [] op = "editSaleInfo" -> EditSaleArgs
      [] op = "editInstallmentInfo" -> EditInstallmentArgs
      [] op = "editCar" -> EditCarArgs
      [] op = "addRepair" -> RepairArgs
      [] OTHER -> TransferNotes

\* the handler up to its commit: for editCar, the read after the commit is
\* left to the step that follows
HandlerResult(op, c, found, body) ==
    CASE op = "markAsPaid" -> MarkAsPaidResult(c, found, body)
      [] op = "markAsInstallment" -> MarkAsInstallmentResult(c, found, body)
      [] op = "addInstallmentPayment" ->
             AddInstallmentPaymentResult(c, found, body)
      [] op = "upsertInstallmentPaymentByMonth" ->
             UpsertInstallmentPaymentByMonthResult(c, found, body)
      [] op = "editSaleInfo" -> EditSaleInfoResult(c, found, body)
      [] op = "editInstallmentInfo" ->
             EditInstallmentInfoResult(c, found, body)
      [] op = "editCar" ->
             EditCarResult(c, found, [body EXCEPT !.reload = "ok"])
      [] op = "addRepair" -> AddRepairResult(c, found, body)
      [] OTHER -> OwnerBookTransferResult(c, found, body)

\* the code between commitTransaction and the reply throws: in editCar the
\* document is read again there
ThrowsAfterCommit(op, body) == op = "editCar" /\ body.reload = "fails"

\* vehicles in stock and sold
SessionCars ==
    {NewCar(k) : k \in Kilos}
    \cup {r.car : r \in {x \in {MarkAsPaidResult(NewCar(0), TRUE, a) :
                                   a \in PaidArgs}
                                \cup {MarkAsInstallmentResult(NewCar(0), TRUE, a) :
                                         a \in InstallmentArgs} :
                            x.reply.status = 200}}

InitSession ==
    /\ car \in SessionCars
    /\ response = Reply("createCar", 201, "OK")
    /\ pre = NewCar(0)
    /\ req = NoReq
    /\ repeated = FALSE
    /\ txn = [p \in Procs |-> IdleTxn]
    /\ version = 0
    /\ upload = NoUpload

\* mongoose.startSession(), session.startTransaction()
SessionStart(p) ==
    /\ \A q \in Procs : txn[q].pc = "idle"
    /\ \E op \in SessionOps : \E id \in Ids :
       \E body \in For(id, SessionBodies(op)) :
           txn' = [txn EXCEPT ![p] =
                      [pc |-> "try", op |-> op, body |-> Some(body),
                       found |-> (id = "car"), state |-> "active",
                       replies |-> 0, abortOnCommitted |-> FALSE,
                       reply |-> NULL]]
    /\ UNCHANGED <<car, response, pre, req, repeated, version, upload>>

\* the try block up to the commit: a check that fails aborts and answers, a
\* save that throws goes to the catch block, a save that succeeds is
\* committed
SessionTry(p) ==
    /\ txn[p].pc = "try"
    /\ LET t == txn[p]
           r == HandlerResult(t.op, car, t.found, Val(t.body))
       IN IF r.reply.status = 200
          THEN /\ car' = r.car
               /\ version' = version + 1
               /\ response' = response
               /\ txn' = [txn EXCEPT ![p].pc = "committed",
                                     ![p].state = "committed",
                                     ![p].reply = Some(r.reply)]
          ELSE IF r.reply.status = 500
          THEN /\ txn' = [txn EXCEPT ![p].pc = "catch"]
               /\ UNCHANGED <<car, version, response>>
          ELSE /\ txn' = [txn EXCEPT ![p].pc = "finally",
                                     ![p].state = "aborted",
                                     ![p].replies = @ + 1,
                                     ![p].reply = Some(r.reply)]
               /\ response' = r.reply
               /\ UNCHANGED <<car, version>>
    /\ UNCHANGED <<pre, req, repeated, upload>>

\* the try block after the commit: the reply, unless something throws
SessionReply(p) ==
    /\ txn[p].pc = "committed"
    /\ IF ThrowsAfterCommit(txn[p].op, Val(txn[p].body))
       THEN /\ txn' = [txn EXCEPT ![p].pc = "catch"]
            /\ UNCHANGED response
       ELSE /\ txn' = [txn EXCEPT ![p].pc = "finally", ![p].replies = @ + 1]
            /\ response' = Val(txn[p].reply)
    /\ UNCHANGED <<car, pre, req, repeated, version, upload>>

\* the catch block: abortTransaction, then the 500 reply.  abortTransaction
\* throws when the transaction is committed, and the reply is not reached.
SessionCatch(p) ==
    /\ txn[p].pc = "catch"
    /\ IF txn[p].state = "committed"
       THEN /\ txn' = [txn EXCEPT ![p].pc = "finally",
                                  ![p].abortOnCommitted = TRUE,
                                  ![p].reply = NULL]
            /\ UNCHANGED response
       ELSE /\ txn' = [txn EXCEPT
                          ![p].pc = "finally",
                          ![p].state = "aborted",
                          ![p].replies = @ + 1,
                          ![p].reply =
                              Some(Reply(txn[p].op, 500, "ServerError"))]
            /\ response' = Reply(txn[p].op, 500, "ServerError")
    /\ UNCHANGED <<car, pre, req, repeated, version, upload>>

\* the finally block: session.endSession()
SessionEnd(p) ==
    /\ txn[p].pc = "finally"
    /\ txn' = [txn EXCEPT ![p].pc = "done"]
    /\ UNCHANGED <<car, response, pre, req, repeated, version, upload>>

NextSession ==
    \E p \in Procs :
        \/ SessionStart(p)
        \/ SessionTry(p)
        \/ SessionReply(p)
        \/ SessionCatch(p)
        \/ SessionEnd(p)

SpecSession == InitSession /\ [][NextSession]_vars

\* --------------------------------------------------------------- odometer
\* Vehicles in stock whose odometer may be above every odometer a sale
\* states.
Odometers == 0..(MaxKilo + 1)

InitOdometer ==
    /\ car \in {NewCar(k) : k \in Odometers}
    /\ response = Reply("createCar", 201, "OK")
    /\ pre = NewCar(0)
    /\ req = NoReq
    /\ repeated = FALSE
    /\ txn = [p \in Procs |-> IdleTxn]
    /\ version = 0
    /\ upload = NoUpload

NextOdometer ==
    \/ MarkAsPaid
    \/ EditSaleInfo
    \/ EditCar
    \/ AddRepair

SpecOdometer == InitOdometer /\ [][NextOdometer]_vars

\* ------------------------------------------------------------- properties
Sold(c) == Has(c.sale) \/ Has(c.installment)

RemainingAmount(c) == Val(c.installment).remainingAmount

PaymentHistory(c) == Val(c.installment).paymentHistory

UpsertOk ==
    /\ response.op = "upsertInstallmentPaymentByMonth"
    /\ response.status = 200

\* C1: in every reachable state exactly one of these holds: no sale, no
\* installment and isAvailable; a sale, no installment and not isAvailable;
\* an installment, no sale and not isAvailable.
SaleStateExclusive ==
    \/ ~Has(car.sale) /\ ~Has(car.installment) /\ car.isAvailable
    \/ Has(car.sale) /\ ~Has(car.installment) /\ ~car.isAvailable
    \/ Has(car.installment) /\ ~Has(car.sale) /\ ~car.isAvailable

\* C1 witness: an installment sale that was paid through the ledger, had a
\* repair added and was transferred.
SaleStateExclusiveWitness ==
    /\ Has(car.installment)
    /\ Len(PaymentHistory(car)) > 0
    /\ Len(car.repairs) > 0
    /\ AlreadyTransferred(car)

\* C2: the remaining amount of an installment sale is never negative.
RemainingNonNegative ==
    Has(car.installment) => RemainingAmount(car) >= 0

\* C2 witness: a monthly payment larger than the balance was recorded, the
\* balance is 0.
RemainingNonNegativeWitness ==
    /\ UpsertOk
    /\ req.paid
    /\ FindIndex(PaymentHistory(pre), req.monthNumber) = 0
    /\ Has(req.amount)
    /\ Val(req.amount) > RemainingAmount(pre)
    /\ RemainingAmount(car) = 0

\* C3 as claimed: a monthly-payment upsert leaves downPayment +
\* remainingAmount + sum of ledger amounts as it was before the call.
ContractTotalPreserved ==
    UpsertOk =>
        ContractTotal(Val(car.installment)) = ContractTotal(Val(pre.installment))

\* C4: a paid=true upsert repeated with the same body leaves the remaining
\* amount, the set of ledger months and the number of ledger entries as the
\* first call left them.
UpsertIdempotent ==
    (repeated /\ req.paid /\ UpsertOk) =>
        /\ RemainingAmount(car) = RemainingAmount(pre)
        /\ PaidMonths(PaymentHistory(car)) = PaidMonths(PaymentHistory(pre))
        /\ Len(PaymentHistory(car)) = Len(PaymentHistory(pre))

\* C4 witness: the same paid=true body with a positive amount was served
\* twice in a row.
UpsertIdempotentWitness ==
    /\ repeated
    /\ req.paid
    /\ UpsertOk
    /\ Has(req.amount)
    /\ Val(req.amount) > 0
    /\ req.monthNumber \in PaidMonths(PaymentHistory(car))

\* C5 as claimed: after a paid=true upsert of a month that had no entry, the
\* paid=false upsert of that month restores the remaining amount.
RoundTripRestores ==
    (UpsertOk /\ req.paid
        /\ FindIndex(PaymentHistory(pre), req.monthNumber) = 0) =>
        LET off == LedgerReq(req.monthNumber, FALSE, NULL, 0)
            back == UpsertInstallmentPaymentByMonthResult(car, TRUE, off)
        IN /\ back.reply.status = 200
           /\ RemainingAmount(back.car) = RemainingAmount(pre)

\* C6 as claimed: two paid=true upserts of distinct months end with the same
\* remaining amount in either order.
UpsertOrderIndependent ==
    Has(car.installment) =>
        \A m1 \in MonthNumbers, m2 \in MonthNumbers :
        \A a1 \in Amounts, a2 \in Amounts :
            m1 # m2 =>
                LET b1 == LedgerReq(m1, TRUE, Some(a1), 0)
                    b2 == LedgerReq(m2, TRUE, Some(a2), 0)
                    inst == Val(car.installment)
                IN UpsertInstallment(UpsertInstallment(inst, b1), b2)
                        .remainingAmount
                   = UpsertInstallment(UpsertInstallment(inst, b2), b1)
                        .remainingAmount

\* C7 as claimed: a transferred owner book implies a sold vehicle and, for
\* an installment sale, no remaining amount.
TransferImpliesPaidUp ==
    AlreadyTransferred(car) =>
        /\ Sold(car)
        /\ ~car.isAvailable
        /\ Has(car.installment) => RemainingAmount(car) <= 0

\* the required fields of a mark-sold body are all there
PaidBodyComplete(a) ==
    a.price # 0 /\ a.soldDate /\ a.kiloAtSale # 0 /\ a.buyer = "ok"

InstallmentBodyComplete(a) ==
    /\ a.downPayment # 0
    /\ a.remainingAmount # 0
    /\ a.months # 0
    /\ a.monthlyPayment # 0
    /\ a.buyer = "ok"

TransferGuarded ==
    LET r == OwnerBookTransferResult(car, TRUE, "")
    IN /\ (~Sold(car) \/ car.isAvailable
            \/ (Has(car.installment) /\ RemainingAmount(car) > 0)) =>
              /\ r.reply.kind \in {"NotSold", "NotFullyPaid"}
              /\ ~Has(r.car.ownerBookTransfer)
       /\ (/\ Has(car.sale)
              \/ (Has(car.installment) /\ RemainingAmount(car) <= 0)
           /\ ~AlreadyTransferred(car)) =>
              /\ r.reply.status = 200
              /\ AlreadyTransferred(r.car)

\* C10 restricted to vehicles whose owner book is not transferred yet
TransferGuardedBeforeTransfer ==
    ~AlreadyTransferred(car) => TransferGuarded

Done(p) == txn[p].pc = "done"

Succeeded(p) == Done(p) /\ Val(txn[p].reply).status = 200

\* the body of p's request would sell an available vehicle
SellsWhenAlone(p) ==
    txn[p].pc # "idle" /\
        (IF txn[p].op = "markAsPaid"
         THEN PaidBodyComplete(Val(txn[p].body))
         ELSE InstallmentBodyComplete(Val(txn[p].body)))

\* C9 as claimed: of two concurrent mark-sold requests on an available
\* vehicle at most one succeeds, the other fails with the already-sold
\* conflict error, and sale and installment are never both set.
MarkSoldRaceConflicts ==
    /\ ~(Has(car.sale) /\ Has(car.installment))
    /\ ~(Succeeded(1) /\ Succeeded(2))
    /\ \A p \in Procs, q \in Procs :
          (p # q /\ Succeeded(p) /\ Done(q) /\ SellsWhenAlone(q)) =>
              Val(txn[q].reply).kind = "AlreadySold"

\* the part of C9 that holds: at most one succeeds, the other is answered
\* with a failure, sale and installment are never both set
MarkSoldRaceSafe ==
    /\ ~(Has(car.sale) /\ Has(car.installment))
    /\ ~(Succeeded(1) /\ Succeeded(2))
    /\ \A p \in Procs, q \in Procs :
          (p # q /\ Succeeded(p) /\ Done(q)) =>
              Val(txn[q].reply).kind \in
                  {"AlreadySold", "ServerError", "Validation"}

\* C11: ownerBookTransfer on a vehicle whose owner book is already
\* transferred is answered with the already-transferred error and leaves the
\* transfer record (and the rest of the document) as it was.
TransferTwiceConflicts ==
    AlreadyTransferred(car) =>
        \A notes \in TransferNotes :
            LET r == OwnerBookTransferResult(car, TRUE, notes)
            IN /\ r.reply.status = 400
               /\ r.reply.kind = "AlreadyTransferred"
               /\ r.car.ownerBookTransfer = car.ownerBookTransfer
               /\ r.car = car

\* C11 witness: a second ownerBookTransfer request was answered with the
\* already-transferred error.
TransferTwiceConflictsWitness ==
    /\ response.op = "ownerBookTransfer"
    /\ response.kind = "AlreadyTransferred"
    /\ AlreadyTransferred(car)

\* C12 as claimed: a request that is answered with a failure leaves the
\* persisted document as it was before the request.
FailureLeavesRecord ==
    [][response'.status # 200 => car' = car]_vars

\* C12 without editCar: every other handler answers after its last
\* database call, a failure leaves the document as it was
FailureLeavesRecordButEditCar ==
    [][(response'.status # 200 /\ response'.op # "editCar") => car' = car]_vars

\* the vehicle has no installment record, or one that is paid up
NotActiveInstallment(c) ==
    ~Has(c.installment) \/ RemainingAmount(c) <= 0

\* C13 as claimed: on a vehicle without an installment record, or with a
\* paid-up one, addInstallmentPayment and a paid=true monthly-payment upsert
\* are rejected and leave the ledger as it was.
PaymentOnlyWhileActive ==
    NotActiveInstallment(car) =>
        /\ \A amount \in Amounts :
              LET r == AddInstallmentPaymentResult(car, TRUE, amount)
              IN r.reply.status # 200 /\ r.car = car
        /\ \A b \in LedgerReqs :
              b.paid =>
                  LET r == UpsertInstallmentPaymentByMonthResult(car, TRUE, b)
                  IN r.reply.status # 200 /\ r.car = car

\* the part of C13 that holds: addInstallmentPayment is rejected on such a
\* vehicle, and both routes are rejected on a vehicle without an installment
PaymentOnlyWhileActiveRecord ==
    /\ NotActiveInstallment(car) =>
          \A amount \in Amounts :
              LET r == AddInstallmentPaymentResult(car, TRUE, amount)
              IN r.reply.status # 200 /\ r.car = car
    /\ ~Has(car.installment) =>
          \A b \in LedgerReqs :
              LET r == UpsertInstallmentPaymentByMonthResult(car, TRUE, b)
              IN r.reply.status # 200 /\ r.car = car

\* C16: addInstallmentPayment on an installment vehicle is rejected as
\* invalid and changes nothing when amount <= 0 or amount > remainingAmount;
\* otherwise it appends one ledger entry with that amount and lowers the
\* remaining amount by it, leaving the down payment and the earlier entries
\* as they were.
RecordPaymentExact ==
    Has(car.installment) =>
        \A amount \in -1..MaxAmount :
            LET r == AddInstallmentPaymentResult(car, TRUE, amount)
                old == Val(car.installment)
            IN IF amount <= 0 \/ amount > old.remainingAmount
               THEN /\ r.reply.status = 400
                    /\ r.reply.kind = "Validation"
                    /\ r.car = car
               ELSE LET new == Val(r.car.installment)
                        n == Len(old.paymentHistory)
                    IN /\ r.reply.status = 200
                       /\ Len(new.paymentHistory) = n + 1
                       /\ new.paymentHistory[n + 1].amount = amount
                       /\ SubSeq(new.paymentHistory, 1, n) = old.paymentHistory
                       /\ new.remainingAmount = old.remainingAmount - amount
                       /\ new.downPayment = old.downPayment

\* C16 witness: an addInstallmentPayment request was served and lowered the
\* remaining amount by the amount of the entry it appended.
RecordPaymentExactWitness ==
    /\ response.op = "addInstallmentPayment"
    /\ response.status = 200
    /\ Has(pre.installment)
    /\ Len(PaymentHistory(car)) = Len(PaymentHistory(pre)) + 1
    /\ PaymentHistory(car)[Len(PaymentHistory(car))].amount > 0
    /\ RemainingAmount(car) < RemainingAmount(pre)

\* the record markAsPaid leaves on success
SoldPaidRecord(c, a) ==
    /\ c.sale = Some([price |-> a.price, kiloAtSale |-> a.kiloAtSale])
    /\ c.installment = NULL
    /\ ~c.isAvailable
    /\ c.boughtType = "Paid"

\* C14 as claimed: markAsPaid on an available vehicle succeeds exactly when
\* price > 0, the sale date is valid, kiloAtSale >= 0 (0 included) and the
\* buyer's name and passport are there, and then leaves sale set, installment
\* null, isAvailable false and boughtType "Paid"; otherwise it is rejected
\* as invalid.
MarkPaidSucceedsExactly ==
    car.isAvailable =>
        \A a \in PaidArgs :
            LET r == MarkAsPaidResult(car, TRUE, a)
            IN IF a.price > 0 /\ a.soldDate /\ a.kiloAtSale >= 0
                  /\ a.buyer = "ok"
               THEN r.reply.status = 200 /\ SoldPaidRecord(r.car, a)
               ELSE r.reply.kind = "Validation" /\ r.car = car

\* C14 with kiloAtSale > 0 in place of kiloAtSale >= 0
MarkPaidSucceedsPositiveKilo ==
    car.isAvailable =>
        \A a \in PaidArgs :
            LET r == MarkAsPaidResult(car, TRUE, a)
            IN IF a.price > 0 /\ a.soldDate /\ a.kiloAtSale > 0
                  /\ a.buyer = "ok"
               THEN r.reply.status = 200 /\ SoldPaidRecord(r.car, a)
               ELSE r.reply.kind = "Validation" /\ r.car = car

\* the record markAsInstallment leaves on success
SoldInstallmentRecord(c, a) ==
    /\ c.installment =
          Some([downPayment |-> a.downPayment,
                remainingAmount |-> a.remainingAmount,
                months |-> a.months,
                monthlyPayment |-> a.monthlyPayment,
                paymentHistory |-> <<>>])
    /\ c.sale = NULL
    /\ ~c.isAvailable
    /\ c.boughtType = "Installment"

\* C15 as claimed: markAsInstallment on an available vehicle succeeds exactly
\* when downPayment >= 0 and remainingAmount >= 0 (0 included), months >= 1,
\* monthlyPayment > 0 and the buyer's name and passport are there, and then
\* leaves an installment with an empty ledger and that monthly payment, sale
\* null, isAvailable false and boughtType "Installment".
MarkInstallmentSucceedsExactly ==
    car.isAvailable =>
        \A a \in InstallmentArgs :
            LET r == MarkAsInstallmentResult(car, TRUE, a)
            IN IF a.downPayment >= 0 /\ a.remainingAmount >= 0
                  /\ a.months >= 1 /\ a.monthlyPayment > 0 /\ a.buyer = "ok"
               THEN r.reply.status = 200 /\ SoldInstallmentRecord(r.car, a)
               ELSE r.reply.status # 200 /\ r.car = car

\* C15 with downPayment > 0 and remainingAmount > 0 in place of >= 0
MarkInstallmentSucceedsPositive ==
    car.isAvailable =>
        \A a \in InstallmentArgs :
            LET r == MarkAsInstallmentResult(car, TRUE, a)
            IN IF a.downPayment > 0 /\ a.remainingAmount > 0
                  /\ a.months >= 1 /\ a.monthlyPayment > 0 /\ a.buyer = "ok"
               THEN r.reply.status = 200 /\ SoldInstallmentRecord(r.car, a)
               ELSE r.reply.kind = "Validation" /\ r.car = car

\* purchase price plus repairs
TotalCost(c) == c.purchasePrice + SumCosts(c.repairs)

ProfitSameAtEveryStage ==
    [][(/\ Has(car.installment) /\ Has(car'.installment)
        /\ car'.purchasePrice = car.purchasePrice
        /\ car'.repairs = car.repairs
        /\ Val(car'.installment).downPayment = Val(car.installment).downPayment
        /\ ContractTotal(Val(car'.installment))
              = ContractTotal(Val(car.installment)))
          => Profit(car') = Profit(car)]_vars

\* what does hold: the profit virtual of an installment sale is the down
\* payment plus the amount still to be paid, less the costs
ProfitFollowsRemaining ==
    (Has(car.installment) /\ ~Has(car.sale)) =>
        Profit(car) = Some(Val(car.installment).downPayment
                             + RemainingAmount(car) - TotalCost(car))

\* the installment sales of the same vehicle at asking price P whose contract
\* total is P
InstallmentTwins(c, P) ==
    LET contracts ==
            {[downPayment |-> d, remainingAmount |-> rem,
              months |-> 1, monthlyPayment |-> 1, paymentHistory |-> h] :
                d \in Amounts, rem \in Amounts,
                h \in {<<>>} \cup {<<PaymentEntry(1, a, 0)>> : a \in Amounts}}
    IN {[c EXCEPT !.sale = NULL, !.priceToSell = P,
                  !.boughtType = "Installment",
                  !.installment = Some(inst)] :
           inst \in {i \in contracts : ContractTotal(i) = P}}

\* C19: for a cash sale generalProfit = detailedProfit = sale price -
\* (purchasePrice + repairs) and contractValue = sale price, whatever the
\* asking price is; and the same vehicle sold on installment at asking price
\* P with contract total P has the same generalProfit and detailedProfit as
\* the cash sale at P.
CashProfitFigures ==
    Has(car.sale) =>
        LET P == Val(car.sale).price
            r == CalculateCarProfitDetails(car)
        IN /\ r.generalProfit = P - TotalCost(car)
           /\ r.detailedProfit = r.generalProfit
           /\ r.contractValue = P
           /\ CalculateCarProfit(car).profit = r.generalProfit
           /\ \A q \in Prices :
                 LET other == [car EXCEPT !.priceToSell = q]
                 IN /\ CalculateCarProfitDetails(other) = r
                    /\ CalculateCarProfit(other) = CalculateCarProfit(car)
           /\ \A twin \in InstallmentTwins(car, P) :
                 LET t == CalculateCarProfitDetails(twin)
                 IN /\ t.generalProfit = r.generalProfit
                    /\ t.detailedProfit = r.detailedProfit
                    /\ CalculateCarProfit(twin).profit = r.generalProfit

\* C19 witness: the general row of a cash sale at a price other than the
\* asking price, with repairs, was computed; the vehicle has installment
\* twins.
CashProfitFiguresWitness ==
    /\ response.op = "calculateCarProfit"
    /\ Has(car.sale)
    /\ Val(car.sale).price # car.priceToSell
    /\ SumCosts(car.repairs) > 0
    /\ response.cars[1].profit = Val(car.sale).price - TotalCost(car)
    /\ InstallmentTwins(car, Val(car.sale).price) # {}

\* the installment sale is paid up and its owner book transferred
Completed(c) ==
    /\ AlreadyTransferred(c)
    /\ Has(c.installment)
    /\ RemainingAmount(c) <= 0

\* C20: a period report includes a cash sale exactly when sale.date lies in
\* the range, and an installment sale exactly when its owner book is
\* transferred, its remaining amount is <= 0 and the transfer date lies in
\* the range; the start date of the installment does not decide it.
ReportInclusion ==
    GetDateRange(req.period, req.now) # NULL =>
        LET range == Val(GetDateRange(req.period, req.now))
            all == GetProfitAnalysisResult(car, req.period, req.now).cars
            paid == GetPaidProfitAnalysisResult(car, req.period, req.now).cars
            inst == GetInstallmentProfitAnalysisResult(car, req.period,
                                                       req.now).cars
        IN /\ Has(car.sale) =>
                /\ all # <<>> <=> InRange(Val(car.sale).date, range)
                /\ paid # <<>> <=> InRange(Val(car.sale).date, range)
                /\ inst = <<>>
           /\ Has(car.installment) =>
                LET in == /\ Completed(car)
                          /\ InRange(Val(car.ownerBookTransfer).transferDate,
                                     range)
                IN /\ all # <<>> <=> in
                   /\ inst # <<>> <=> in
                   /\ paid = <<>>

\* C20 witness: a monthly report left out a completed installment sale whose
\* transfer date is before the range although its start date is inside it.
ReportInclusionWitness ==
    /\ response.op = "getProfitAnalysis"
    /\ response.status = 200
    /\ req.period = Some("monthly")
    /\ response.cars = <<>>
    /\ Completed(car)
    /\ LET range == Val(GetDateRange(req.period, req.now))
       IN /\ InRange(Val(car.installment).startDate, range)
          /\ Val(car.ownerBookTransfer).transferDate < range.startDate

\* the months since year 0, the day since time 0
MonthIndex(t) == GetFullYear(t) * 12 + GetMonth(t)

DayIndex(t) == t \div DayLength

\* midnight of the first day of a month
FirstDay(t) == GetDate(t) = 1 /\ GetTime(t) = 0

ValidPeriods == {Some("monthly"), Some("6months"), Some("yearly")}

PeriodErrors == {"InvalidPeriod", "PeriodRequired"}

LicenseNoImmutable ==
    [][/\ car'.licenseNo = car.licenseNo
       /\ car'.licenseNo = ToUpperCase(car'.licenseNo)]_vars

\* What holds of licenseNo: it is stored trimmed and upper-case, and no
\* request other than editCar changes it.
LicenseNoUpperCase ==
    /\ car.licenseNo = ToUpperCase(car.licenseNo)
    /\ car.licenseNo = Trim(car.licenseNo)

LicenseNoKeptButEditCar ==
    [][response'.op # "editCar" => car'.licenseNo = car.licenseNo]_vars

\* C24: when createCar has answered with a failure, every image of the
\* request that is stored at the image service has had its deletion asked
\* for.
FailedCreationCleansUp ==
    (response.op = "createCar" /\ response.status # 201) =>
        Stored(upload) \subseteq upload.destroyed

\* What holds: a failure of the save (or of the reload after it) is
\* answered after the deletion of every uploaded image was asked for.
SaveFailureCleansUp ==
    (response.op = "createCar" /\ response.kind = "SaveFailed") =>
        /\ Stored(upload) = DOMAIN upload.files
        /\ Stored(upload) \subseteq upload.destroyed

\* the transfer record of a transferred vehicle is kept as it is (its
\* transferDate with it)
TransferKept(c, d) ==
    AlreadyTransferred(c) => d.ownerBookTransfer = c.ownerBookTransfer

\* C25: no request moves a vehicle backward: a vehicle that is not available
\* never becomes available, a sale or an installment that is set is never
\* cleared nor replaced by the other kind, and a transferred owner book
\* stays transferred with the same record.
NoBackwardMove ==
    [][/\ ~car.isAvailable => ~car'.isAvailable
       /\ Has(car.sale) => (Has(car'.sale) /\ ~Has(car'.installment))
       /\ Has(car.installment) => (Has(car'.installment) /\ ~Has(car'.sale))
       /\ TransferKept(car, car')
       /\ ~car.isAvailable => car' # CarRelist(car)]_vars

\* C25 witness: a request to sell again a vehicle that is sold for cash and
\* whose owner book is transferred was served, and the vehicle is as it was.
NoBackwardMoveWitness ==
    /\ response.op = "markAsInstallment"
    /\ response.kind = "AlreadySold"
    /\ Has(car.sale)
    /\ AlreadyTransferred(car)

NeverRelisted == [][~car.isAvailable => ~car'.isAvailable]_vars

TransferNeverUndone == [][TransferKept(car, car')]_vars

\* C26: a successful markAsPaid leaves as last-known odometer the larger of
\* the odometer before and the odometer of the sale, a failed one leaves it
\* as it was, and no request that records or edits a sale lowers it.
SaleKeepsOdometer ==
    [][/\ response'.op = "markAsPaid" =>
              IF response'.status = 200
              THEN car'.kilo = Max(car.kilo, Val(car'.sale).kiloAtSale)
              ELSE car'.kilo = car.kilo
       /\ response'.op = "editSaleInfo" => car'.kilo >= car.kilo]_vars

\* C26 witness: a vehicle was sold with an odometer below its last-known
\* one, which it kept.
SaleKeepsOdometerWitness ==
    /\ response.op = "markAsPaid"
    /\ response.status = 200
    /\ Val(car.sale).kiloAtSale < car.kilo

\* C27: the monthly-payment request with paid = false removes the entry of
\* its month and no other entry; when the month has no entry it changes
\* neither the ledger nor the remaining amount; with paid = true and no
\* amount the entry of the month gets the monthly payment of the contract
\* as its amount.
UpsertUnpaidRemoves ==
    Has(car.installment) =>
        \A month \in MonthNumbers, amount \in Opt(Amounts) :
            LET off == UpsertInstallmentPaymentByMonthResult(
                           car, TRUE, LedgerReq(month, FALSE, amount, 0))
                on == UpsertInstallmentPaymentByMonthResult(
                          car, TRUE, LedgerReq(month, TRUE, NULL, 0))
            IN /\ off.reply.status = 200
               /\ PaymentHistory(off.car) =
                      SelectSeq(PaymentHistory(car),
                                LAMBDA p : p.monthNumber # month)
               /\ (\A i \in 1..Len(PaymentHistory(car)) :
                       PaymentHistory(car)[i].monthNumber # month)
                      => off.car = car
               /\ on.reply.status = 200 =>
                      /\ \E i \in 1..Len(PaymentHistory(on.car)) :
                             PaymentHistory(on.car)[i].monthNumber = month
                      /\ \A i \in 1..Len(PaymentHistory(on.car)) :
                             PaymentHistory(on.car)[i].monthNumber = month =>
                                 PaymentHistory(on.car)[i].amount =
                                     Val(car.installment).monthlyPayment

\* C27 witness: a request with paid = false removed the entry of its month
\* from a ledger and left another entry in it.
UpsertUnpaidRemovesWitness ==
    /\ response.op = "upsertInstallmentPaymentByMonth"
    /\ response.status = 200
    /\ ~req.paid
    /\ Has(pre.installment)
    /\ \E i \in 1..Len(PaymentHistory(pre)) : PaymentHistory(pre)[i].monthNumber = req.monthNumber
    /\ Len(PaymentHistory(car)) = Len(PaymentHistory(pre)) - 1
    /\ Len(PaymentHistory(car)) >= 1

\* f[1] + ... + f[n]
RECURSIVE TotalOf(_, _)
TotalOf(f, n) == IF n = 0 THEN 0 ELSE f[n] + TotalOf(f, n - 1)

\* C28: the ledger holds at most one entry per month number, and the data of
\* the reply to a monthly-payment request agree with the persisted ledger:
\* paidMonths lists its month numbers once each in ascending order,
\* totalPaid is the sum of its amounts, totalPenalty the sum of its penalty
\* fees, remainingAmount the persisted remaining amount.
SummaryConsistent ==
    Has(car.installment) =>
        LET h == PaymentHistory(car)
        IN /\ \A i, j \in 1..Len(h) :
                  (i # j /\ h[i].monthNumber = h[j].monthNumber)
                      => h[i].monthNumber = 0
           /\ (/\ response.op = "upsertInstallmentPaymentByMonth"
               /\ response.status = 200) =>
                  LET d == response.data
                  IN /\ \A i, j \in 1..Len(d.paidMonths) :
                            i < j => d.paidMonths[i] < d.paidMonths[j]
                     /\ {d.paidMonths[i] : i \in 1..Len(d.paidMonths)}
                            = {h[i].monthNumber : i \in 1..Len(h)} \ {0}
                     /\ d.totalPaid
                            = TotalOf([i \in 1..Len(h) |-> h[i].amount], Len(h))
                     /\ d.totalPenalty
                            = TotalOf([i \in 1..Len(h) |-> h[i].penaltyFee],
                                      Len(h))
                     /\ d.remainingAmount = RemainingAmount(car)

\* C28 witness: the reply lists two months in ascending order for a ledger
\* that holds them in the other order, with a penalty fee collected.
SummaryConsistentWitness ==
    /\ response.op = "upsertInstallmentPaymentByMonth"
    /\ response.status = 200
    /\ Len(response.data.paidMonths) = 2
    /\ PaymentHistory(car)[1].monthNumber > PaymentHistory(car)[2].monthNumber
    /\ response.data.totalPenalty > 0
    /\ response.data.totalPaid > 0

\* the change a successful payment request makes to the ledger is in it
ChangePresent(t, h) ==
    LET b == Val(t.body)
    IN IF t.op = "addInstallmentPayment"
       THEN \E i \in 1..Len(h) : h[i].monthNumber = 0 /\ h[i].amount = b
       ELSE IF b.paid
       THEN \E i \in 1..Len(h) :
                /\ h[i].monthNumber = b.monthNumber
                /\ h[i].amount = IF Has(b.amount) THEN Val(b.amount)
                                 ELSE Val(pre.installment).monthlyPayment
       ELSE \A i \in 1..Len(h) : h[i].monthNumber # b.monthNumber

\* two monthly-payment requests for different months, or a monthly-payment
\* request and a payment
PaymentPair ==
    /\ \A p \in Procs : txn[p].pc = "done"
    /\ \/ /\ \A p \in Procs : txn[p].op = "upsertInstallmentPaymentByMonth"
          /\ Val(txn[1].body).monthNumber # Val(txn[2].body).monthNumber
       \/ \E p, q \in Procs :
             /\ txn[p].op = "upsertInstallmentPaymentByMonth"
             /\ txn[q].op = "addInstallmentPayment"

\* C29: when two concurrent payment requests have both ended, the ledger
\* change of every one that reported success is in the record, and down
\* payment + remaining amount + ledger amounts is what it was before both.
ConcurrentPaymentsKept ==
    PaymentPair =>
        /\ \A p \in Procs :
               Succeeded(p) => ChangePresent(txn[p], PaymentHistory(car))
        /\ ContractTotal(Val(car.installment))
               = ContractTotal(Val(pre.installment))

\* What holds: no successful request loses its ledger change, and the total
\* is kept whenever the ledger amounts do not exceed what was owed.
NoLostPayment ==
    PaymentPair =>
        \A p \in Procs :
            Succeeded(p) => ChangePresent(txn[p], PaymentHistory(car))

TotalKeptUnlessOverpaid ==
    (/\ PaymentPair
     /\ SumAmounts(PaymentHistory(car)) <= RemainingAmount(pre)) =>
        ContractTotal(Val(car.installment))
            = ContractTotal(Val(pre.installment))

\* C30: a request that has ended has finished its transaction, committed or
\* aborted, and has sent one response; no request sends more than one, and
\* abortTransaction is never called on a committed transaction.
TransactionFinishedOnce ==
    \A p \in Procs :
        txn[p].pc # "idle" =>
            /\ txn[p].replies <= 1
            /\ ~txn[p].abortOnCommitted
            /\ txn[p].pc = "done" =>
                   /\ txn[p].state \in {"committed", "aborted"}
                   /\ txn[p].replies = 1

\* What holds: the same of every handler but editCar.
TransactionFinishedOnceButEditCar ==
    \A p \in Procs :
        (txn[p].pc # "idle" /\ txn[p].op # "editCar") =>
            /\ txn[p].replies <= 1
            /\ ~txn[p].abortOnCommitted
            /\ txn[p].pc = "done" =>
                   /\ txn[p].state \in {"committed", "aborted"}
                   /\ txn[p].replies = 1

====
